---- MODULE Spec2Model ----
(***************************************************************************)
(* BUFR2JTWC.transform of src/toJTWCdat/__init__.py as a state machine.    *)
(*                                                                         *)
(* Representation of the Python values:                                    *)
(*   - a str is a sequence of one-character strings ("" is <<>>);          *)
(*   - a dict is a sequence of <<key, value>> pairs in insertion order;    *)
(*   - a value that is either "" / missing or a number is <<>> or <<n>>;   *)
(*   - the metadata list of a feature is split by entry name: ens, bearing *)
(*     and threshold are the sequences of the values of the entries named  *)
(*     ensemble_member_number, bearing_or_azimuth, wind_speed_threshold;   *)
(*   - a timestamp text is [ok, s]: ok says whether it matches             *)
(*     "%Y-%m-%dT%H:%M:%SZ", s is the instant in seconds after             *)
(*     2024-01-01T00:00:00Z (instants stay within January 2024);           *)
(*   - phenomenonTime is the sequence of its "/"-separated timestamps;     *)
(*   - latitude and longitude are in hundredths of a degree, pressure and  *)
(*     wind speeds in tenths of their unit, radii in whole metres,         *)
(*     bearings in whole degrees (floats of the decoder).                  *)
(***************************************************************************)
EXTENDS Integers, Sequences, FiniteSets, TLC

\* Features consumed by one invocation, over all its collections (any number
\* of collections, empty ones included).
MaxItems == 3

-----------------------------------------------------------------------------
(* Python built-ins *)

\* int(x) of the quotient n/d, d > 0: truncation toward zero.
Trunc(n, d) == IF n >= 0 THEN n \div d ELSE -((-n) \div d)

Abs(n) == IF n >= 0 THEN n ELSE -n

Digit(n) == CASE n = 0 -> "0" [] n = 1 -> "1" [] n = 2 -> "2" [] n = 3 -> "3"
              [] n = 4 -> "4" [] n = 5 -> "5" [] n = 6 -> "6" [] n = 7 -> "7"
              [] n = 8 -> "8" [] n = 9 -> "9"

RECURSIVE NatStr(_)
NatStr(n) == IF n < 10 THEN <<Digit(n)>> ELSE NatStr(n \div 10) \o <<Digit(n % 10)>>

\* str(n) of an int.
IntStr(n) == IF n < 0 THEN <<"-">> \o NatStr(-n) ELSE NatStr(n)

\* str(x) of a float given in hundredths: shortest repr, at least one decimal.
FloatStr(h) ==
    LET a == Abs(h)
        frac == a % 100
        dec == IF frac % 10 = 0 THEN <<Digit(frac \div 10)>>
               ELSE <<Digit(frac \div 10), Digit(frac % 10)>>
    IN  (IF h < 0 THEN <<"-">> ELSE <<>>) \o NatStr(a \div 100) \o <<".">> \o dec

RECURSIVE Blanks(_)
Blanks(n) == IF n <= 0 THEN <<>> ELSE <<" ">> \o Blanks(n - 1)

\* format(s, ">w"): right-justified, never truncated.
RJust(s, w) == Blanks(w - Len(s)) \o s

\* f"{v:>w}" of a value that is "" (<<>>) or an int (<<n>>).
FmtInt(v, w) == RJust(IF v = <<>> THEN <<>> ELSE IntStr(v[1]), w)

\* dict operations
Has(d, k) == \E j \in 1..Len(d) : d[j][1] = k
Idx(d, k) == CHOOSE j \in 1..Len(d) : d[j][1] = k
Get(d, k) == d[Idx(d, k)][2]
Put(d, k, v) == IF Has(d, k) THEN [d EXCEPT ![Idx(d, k)] = <<k, v>>]
                ELSE Append(d, <<k, v>>)
Keys(d) == {d[j][1] : j \in 1..Len(d)}

-----------------------------------------------------------------------------
(* Module constants *)

\* bearingToName with the end bearing 0 of [270,0) read as a start of 0
bearingToNameZeroFirst ==
    << <<<<0, 90>>, "RAD1">>, <<<<90, 180>>, "RAD2">>,
       <<<<180, 270>>, "RAD3">>, <<<<270, 0>>, "RAD1">> >>

\* bearingToName, keyed by the bearing pair that the f-string renders.
bearingToName ==
    << <<<<0, 90>>, "RAD1">>, <<<<90, 180>>, "RAD2">>,
       <<<<180, 270>>, "RAD3">>, <<<<270, 0>>, "RAD4">> >>

datarow ==
    [basin |-> <<>>, cyclone_number |-> <<>>, yyyymmddhh |-> <<>>,
     tech_number |-> <<"0", "0">>, tech |-> <<"E", "C", "M", "F">>,
     clat |-> <<>>, clon |-> <<>>, flat |-> <<>>, flon |-> <<>>,
     Vmax |-> <<>>, MSLP |-> <<>>, TY |-> <<"X", "X">>, RAD |-> <<>>,
     MSLP_metadata |-> <<>>, Vmax_metadata |-> <<>>,
     \* keys the template lacks; <<>> is "key absent"
     MSLP_geometry |-> <<>>, Vmax_geometry |-> <<>>,
     lat |-> <<>>, lon |-> <<>>, tau |-> <<>>]

rads ==
    [RAD |-> <<>>, wind_code |-> <<"N", "E", "Q">>,
     RAD1 |-> <<>>, RAD2 |-> <<>>, RAD3 |-> <<>>, RAD4 |-> <<>>]

-----------------------------------------------------------------------------
(* Conversions of transform *)

\* int(value / 0.51444444), value in tenths of m/s.
Knots(v) == Trunc(v * 2500000, 12861111)

\* int(value * 0.000539957), value in metres (exact up to 3000 km).
NauticalMiles(m) ==
    LET a == Abs(m)
        n == ((a \div 1000) * 539957 + ((a % 1000) * 539957) \div 1000) \div 1000000
    IN  IF m < 0 THEN -n ELSE n

Two(n) == <<Digit(n \div 10), Digit(n % 10)>>

\* forecastTime.strftime("%Y%m%d%H")
Strftime(s) ==
    <<"2", "0", "2", "4", "0", "1">> \o Two(s \div 86400 + 1) \o Two((s % 86400) \div 3600)

\* str(forecastTime), as the f-string of key1 renders a datetime
DatetimeStr(s) ==
    <<"2", "0", "2", "4", "-", "0", "1", "-">> \o Two(s \div 86400 + 1) \o <<" ">>
    \o Two((s % 86400) \div 3600) \o <<":">> \o Two((s % 3600) \div 60)
    \o <<":">> \o Two(s % 60)

RECURSIVE Join(_, _)
\* sep.join(parts)
Join(parts, sep) ==
    IF parts = <<>> THEN <<>>
    ELSE IF Len(parts) = 1 THEN parts[1]
    ELSE parts[1] \o sep \o Join(Tail(parts), sep)

\* lines 92-95 without the metadata loop
SubsetOnly(f) == f.subset

\* lines 92-95: subset, overridden by the last ensemble_member_number entry
Subset(f) == IF f.ens # <<>> THEN f.ens[Len(f.ens)] ELSE f.subset

\* line 111 with the floor division // in place of int(... / ...)
TauFloor(forecastTime, tau) == (tau - forecastTime) \div 3600

\* line 111: int((tau - forecastTime).total_seconds() / 3600)
Tau(forecastTime, tau) == Trunc(tau - forecastTime, 3600)

\* line 113: f"{stormIdentifier}-{subset}-{forecastTime}-{tau}"
Key1(stormIdentifier, subset, forecastTime, tau) ==
    stormIdentifier \o <<"-">> \o IntStr(subset) \o <<"-">>
    \o DatetimeStr(forecastTime) \o <<"-">> \o IntStr(tau)

\* lines 96-113: identification and times of one feature; exc names the
\* exception that escapes, "none" when the key is built.
Resolve(f) ==
    LET bad(e) == [exc |-> e, key1 |-> <<>>, forecastTime |-> 0, tau |-> 0,
                   stormNumber |-> <<>>]
        t1 == f.phenomenonTime[1]
        t2 == IF Len(f.phenomenonTime) = 1 THEN f.resultTime ELSE f.phenomenonTime[2]
    IN  IF Len(f.wigos) # 2 THEN bad("ValueError")               \* line 97
        ELSE IF Len(f.phenomenonTime) > 2 THEN bad("ValueError") \* line 104
        ELSE IF ~t1.ok \/ ~t2.ok THEN bad("ValueError")          \* lines 108, 110
        ELSE [exc |-> "none",
              key1 |-> Key1(Join(f.wigos, <<"-">>), Subset(f), t1.s, Tau(t1.s, t2.s)),
              forecastTime |-> t1.s,
              tau |-> Tau(t1.s, t2.s),
              stormNumber |-> f.wigos[2]]

\* extract_MSLP / extract_Vmax: resultTime and phenomenonTime swapped round
extract_MSLP(f) ==
    LET t1 == f.phenomenonTime[1]
        t2 == IF Len(f.phenomenonTime) = 1 THEN f.resultTime ELSE f.phenomenonTime[2]
    IN  [f EXCEPT !.resultTime = t1, !.phenomenonTime = <<t2>>]

extract_Vmax(f) ==
    LET t1 == f.phenomenonTime[1]
        t2 == IF Len(f.phenomenonTime) = 1 THEN f.resultTime ELSE f.phenomenonTime[2]
    IN  [f EXCEPT !.resultTime = t1, !.phenomenonTime = <<t2>>]

RECURSIVE Arange(_, _, _)
\* np.arange(lo, hi, step), in tenths of a degree
Arange(lo, hi, step) == IF lo >= hi THEN <<>> ELSE <<lo>> \o Arange(lo + step, hi, step)

\* g.fwd(lon, lat, b, radius)[0:2]: the point at distance radius and bearing b
\* (tenths of a degree) of the centre, kept symbolic; distance 0 is the centre.
Fwd(lon, lat, b, radius) ==
    IF radius = 0 THEN <<lon, lat, 0, 0>> ELSE <<lon, lat, b, radius>>

\* extract_wind_polygon
extract_wind_polygon(f) ==
    LET radius == f.value
        lon == f.coordinates[1]
        lat == f.coordinates[2]
        b == f.bearing[Len(f.bearing)]
        b0 == b[1]
        b1 == IF b[2] = 0 THEN 360 ELSE b[2]
        wind_speed == f.threshold[Len(f.threshold)]
        bs == Arange(10 * b0, 10 * b1 + 25, 25)
        x == <<<<lon, lat, 0, 0>>>>
             \o [j \in 1..Len(bs) |-> Fwd(lon, lat, bs[j], radius)]
             \o <<<<lon, lat, 0, 0>>>>
        t1 == f.phenomenonTime[1]
        t2 == IF Len(f.phenomenonTime) = 1 THEN f.resultTime ELSE f.phenomenonTime[2]
    IN  [name |-> "wind_speed_threshold", value |-> wind_speed,
         subset |-> f.subset, wigos |-> f.wigos,
         parameters |-> f.ens,
         type |-> "Polygon", coordinates |-> <<x>>,
         resultTime |-> t1, phenomenonTime |-> <<t2>>]

ColChars(colname) ==
    <<"R", "A", "D">> \o <<CASE colname = "RAD1" -> "1" [] colname = "RAD2" -> "2"
                             [] colname = "RAD3" -> "3" [] colname = "RAD4" -> "4">>

\* lines 169-173 without the deepcopy: every row is the one object rads
SetQuadrantShared(RAD, key2, colname, val) ==
    LET shared == [(IF RAD = <<>> THEN rads ELSE RAD[1][2]) EXCEPT ![colname] = <<val>>]
        all == [j \in 1..Len(RAD) |-> <<RAD[j][1], shared>>]
    IN  IF Has(RAD, key2) THEN all ELSE Append(all, <<key2, shared>>)

\* lines 169-173 with a guard that keeps a quadrant already set
SetQuadrantOnce(RAD, key2, colname, val) ==
    IF Has(RAD, key2)
    THEN IF Get(RAD, key2)[colname] # <<>> THEN RAD
         ELSE Put(RAD, key2, [Get(RAD, key2) EXCEPT ![colname] = <<val>>])
    ELSE Put(RAD, key2, [rads EXCEPT ![colname] = <<val>>])

\* lines 169-173: the threshold table of a record after one radius feature
SetQuadrant(RAD, key2, colname, val) ==
    IF Has(RAD, key2)
    THEN Put(RAD, key2, [Get(RAD, key2) EXCEPT ![colname] = <<val>>])
    ELSE Put(RAD, key2, [rads EXCEPT ![colname] = <<val>>])

\* lines 121-147: the central-pressure branch up to line 142
PressureFields(rec, f) ==
    LET lon == f.coordinates[1]
        lat == f.coordinates[2]
    IN  [rec EXCEPT !.MSLP_metadata = <<[ens |-> f.ens, bearing |-> f.bearing,
                                         threshold |-> f.threshold]>>,
                    !.MSLP_geometry = <<f.coordinates>>,
                    !.MSLP = <<Trunc(f.value, 10)>>,
                    !.clat = NatStr(Abs(lat) \div 10) \o <<IF lat >= 0 THEN "N" ELSE "S">>,
                    !.lat = <<lat>>,
                    !.clon = NatStr(Abs(lon) \div 10) \o <<IF lon >= 0 THEN "E" ELSE "W">>,
                    !.lon = <<lon>>]

\* lines 115-174: one iteration of the feature loop on the dicts J (JTWC) and
\* G (geojsons_out) once lines 88-113 gave r; exc names the exception that
\* escapes the iteration.
ProcessResolved(J, G, f, r) ==
    LET k == r.key1
        J1 == IF Has(J, k) THEN J ELSE Put(J, k, datarow)
        G1 == IF Has(G, k) THEN G ELSE Put(G, k, <<>>)
        rec == Get(J1, k)
        out(e, JJ, GG) == [exc |-> e, J |-> JJ, G |-> GG, r |-> r]
    IN  IF r.exc # "none" THEN out(r.exc, J, G)
        ELSE IF f.name = "pressure_reduced_to_mean_sea_level" THEN
            LET G2 == Put(G1, k, Put(Get(G1, k), <<"M", "S", "L", "P">>, extract_MSLP(f)))
                rec1 == PressureFields(rec, f)
            IN  IF Len(r.stormNumber) < 3                        \* line 143
                THEN out("IndexError", Put(J1, k, rec1), G2)
                ELSE out("none",
                         Put(J1, k, [rec1 EXCEPT
                                       !.basin = <<r.stormNumber[3]>>,
                                       !.cyclone_number = SubSeq(r.stormNumber, 1, 2),
                                       !.yyyymmddhh = Strftime(r.forecastTime),
                                       !.tau = <<r.tau>>]),
                         G2)
        ELSE IF f.name = "wind_speed_at10m" THEN
            out("none",
                Put(J1, k, [rec EXCEPT
                              !.Vmax = <<Knots(f.value)>>,
                              !.Vmax_metadata = <<[ens |-> f.ens, bearing |-> f.bearing,
                                                   threshold |-> f.threshold]>>,
                              !.Vmax_geometry = <<f.coordinates>>]),
                Put(G1, k, Put(Get(G1, k), <<"v", "m", "a", "x">>, extract_Vmax(f))))
        ELSE IF f.name = "effective_radius_with_respect_to_wind_speeds_above_threshold" THEN
            IF f.bearing = <<>> \/ f.threshold = <<>>            \* lines 164, 165
            THEN out("AssertionError", J1, G1)
            ELSE IF ~Has(bearingToName, f.bearing[Len(f.bearing)]) \* line 166
            THEN out("KeyError", J1, G1)
            ELSE
                LET colname == Get(bearingToName, f.bearing[Len(f.bearing)])
                    key2 == Knots(f.threshold[Len(f.threshold)])
                    val == NauticalMiles(f.value)
                IN  out("none",
                        Put(J1, k, [rec EXCEPT !.RAD = SetQuadrant(rec.RAD, key2, colname, val)]),
                        Put(G1, k, Put(Get(G1, k),
                                       IntStr(key2) \o <<"-">> \o ColChars(colname),
                                       extract_wind_polygon(f))))
        ELSE out("none", J1, G1)

\* lines 88-174 inside a try that logs the exception and goes on
ProcessItemCaught(J, G, f) ==
    LET r == Resolve(f)
        p == ProcessResolved(J, G, f, r)
    IN  IF p.exc = "none" THEN p ELSE [exc |-> "none", J |-> J, G |-> G, r |-> r]

\* lines 88-174: one iteration of the feature loop
ProcessItem(J, G, f) == ProcessResolved(J, G, f, Resolve(f))

-----------------------------------------------------------------------------
(* Serialisation *)

\* lines 181-191: the head tuple of a record that has tau, lat and lon
HeadFields(data) ==
    <<RJust(data.basin, 2), RJust(data.cyclone_number, 2), RJust(data.yyyymmddhh, 10),
      RJust(data.tech_number, 2), RJust(data.tech, 4), FmtInt(data.tau, 3),
      RJust(FloatStr(data.lat[1]), 4), RJust(FloatStr(data.lon[1]), 5),
      FmtInt(data.Vmax, 3), FmtInt(data.MSLP, 4), RJust(data.TY, 2)>>

\* lines 196-202: the quadrants tuple of one threshold row
Quadrants(key2, rad) ==
    <<RJust(IntStr(key2), 3), RJust(rad.wind_code, 3), FmtInt(rad.RAD1, 4),
      FmtInt(rad.RAD2, 4), FmtInt(rad.RAD3, 4), FmtInt(rad.RAD4, 4), <<>>>>

\* lines 180-204: output_string, as the sequence of its lines, each line the
\* sequence of the fields that ', '.join concatenates
OutputString(data) ==
    [j \in 1..Len(data.RAD) |-> HeadFields(data) \o Quadrants(data.RAD[j][1], data.RAD[j][2])]

\* get_local_filepath: Path(date_[0:10]) / 'wis' / self.topic_hierarchy.dirpath
get_local_filepath(date_) ==
    <<SubSeq(date_, 1, IF Len(date_) < 10 THEN Len(date_) ELSE 10), "wis", "dirpath">>

\* lines 214-217 and 225-228
Meta(data) ==
    [data_date |-> data.yyyymmddhh,
     relative_filepath |-> get_local_filepath(data.yyyymmddhh)]

RECURSIVE PutGeojsons(_, _, _, _)
\* lines 222-229: the inner loop over the objects of one key; json.dumps keeps
\* the object, which is stored as it is
PutGeojsons(out, k, obj1, data) ==
    IF obj1 = <<>> THEN out
    ELSE PutGeojsons(Put(out, k \o <<"-">> \o obj1[1][1],
                         [geojson |-> obj1[1][2], meta |-> Meta(data)]),
                     k, Tail(obj1), data)

-----------------------------------------------------------------------------
(* Inputs: what the decoder may yield *)

T(s) == [ok |-> TRUE, s |-> s]
NoMatch == [ok |-> FALSE, s |-> 0]

Krosa == <<<<"K">>, <<"0", "1", "W">>>>
North == <<-4560, 1237>>

Feature(name, value, wigos, subset, ens, phen, res, coords, bearing, threshold) ==
    [name |-> name, value |-> value, wigos |-> wigos, subset |-> subset,
     ens |-> ens, bearing |-> bearing, threshold |-> threshold,
     phenomenonTime |-> phen, resultTime |-> res,
     type |-> "Point", coordinates |-> coords]

P(wigos, subset, ens, phen, res, coords) ==
    Feature("pressure_reduced_to_mean_sea_level", 9985, wigos, subset, ens, phen, res,
            coords, <<>>, <<>>)
W(wigos, subset, ens, phen, res) ==
    Feature("wind_speed_at10m", 154, wigos, subset, ens, phen, res, North, <<>>, <<>>)
R(subset, ens, phen, res, bearing, threshold, value) ==
    Feature("effective_radius_with_respect_to_wind_speeds_above_threshold", value,
            Krosa, subset, ens, phen, res, North, bearing, threshold)

\* the usual times: reference 00:00, valid 06:00, written "reference/valid"
Ph0 == <<T(0), T(21600)>>
Rt0 == T(21600)
P0 == P(Krosa, 1, <<>>, Ph0, Rt0, North)
W0 == W(Krosa, 1, <<>>, Ph0, Rt0)
R0 == R(1, <<>>, Ph0, Rt0, <<<<0, 90>>>>, <<180>>, 9260)

TableBearings == {<<0, 90>>, <<90, 180>>, <<180, 270>>, <<270, 0>>}

BulletinRadii ==
    {P0, W0}
    \cup {R(1, <<>>, Ph0, Rt0, <<b>>, <<180>>, 9260) : b \in TableBearings}
    \cup {R(1, <<>>, Ph0, Rt0, <<b>>, <<260>>, 9260) : b \in {<<0, 90>>, <<270, 0>>}}
    \cup {R(1, <<>>, Ph0, Rt0, <<<<0, 90>>>>, <<175>>, 18520)}
    \cup {R(1, <<>>, Ph0, Rt0, <<<<0, 90>>>>, <<180>>, v) : v \in {0, -9260}}

BulletinEnsemble ==
    {P(Krosa, sub, e, Ph0, Rt0, North) : sub \in {1, 2}, e \in {<<>>, <<1>>, <<2>>}}
    \cup {P(Krosa, 1, <<1, 2>>, Ph0, Rt0, North)}
    \cup {W(Krosa, 1, e, Ph0, Rt0) : e \in {<<1>>, <<2>>}}
    \cup {R(1, e, Ph0, Rt0, <<<<0, 90>>>>, <<180>>, 9260) : e \in {<<1>>, <<2>>}}

BulletinTimes ==
    {P(Krosa, 1, <<>>, <<T(a), T(b)>>, T(b), North) :
        <<a, b>> \in {<<0, 21600>>, <<0, 5400>>, <<0, 2700>>, <<21600, 16200>>,
                      <<90000, 111600>>, <<1800, 5400>>}}
    \cup {P(Krosa, 1, <<>>, <<T(0)>>, T(b), North) : b \in {5400, 2700}}
    \cup {W(Krosa, 1, <<>>, <<T(0), T(5400)>>, T(5400)),
          W(Krosa, 1, <<>>, <<T(0)>>, T(5400)),
          R(1, <<>>, <<T(0)>>, T(5400), <<<<0, 90>>>>, <<180>>, 9260)}

BulletinErrors ==
    {P0, W0, R0,
     P(<<<<"K">>>>, 1, <<>>, Ph0, Rt0, North),
     P(<<<<"K">>, <<"1", "W">>>>, 1, <<>>, Ph0, Rt0, North),
     W(<<<<"K">>, <<"1", "W">>>>, 1, <<>>, Ph0, Rt0),
     P(Krosa, 1, <<>>, <<T(0), NoMatch>>, Rt0, North),
     W(Krosa, 1, <<>>, <<T(0)>>, NoMatch),
     P(Krosa, 1, <<>>, <<T(0), T(3600), T(7200)>>, Rt0, North),
     R(1, <<>>, Ph0, Rt0, <<>>, <<180>>, 9260),
     R(1, <<>>, Ph0, Rt0, <<<<0, 90>>>>, <<>>, 9260),
     R(1, <<>>, Ph0, Rt0, <<<<270, 360>>>>, <<180>>, 9260),
     Feature("long_storm_name", 0, Krosa, 2, <<>>, Ph0, Rt0, North, <<>>, <<>>)}

BulletinPositions ==
    {P(Krosa, 1, <<>>, Ph0, Rt0, c) :
        c \in {North, <<4560, -1230>>, <<0, 0>>, <<17995, 8999>>, <<-500, -5>>}}
    \cup {P(Krosa, 2, <<>>, Ph0, Rt0, <<4560, -1230>>), W0, R0}

Bulletins == {BulletinRadii, BulletinEnsemble, BulletinTimes, BulletinErrors,
              BulletinPositions}

-----------------------------------------------------------------------------
(* The state machine of transform *)

VARIABLES
    decoded,        \* the features the decoder may yield for this input
    pc,             \* "for" | "items" | "dat" | "geo" | "done" | "raised"
    consumed,       \* features consumed, over all collections
    items,          \* the features of the current collection consumed so far
    JTWC,           \* dict key1 -> record
    geojsons_out,   \* dict key1 -> dict name -> feature
    key1,           \* the local key1 (<<>> while unbound)
    tau,            \* the local tau (<<>> while unbound)
    data,           \* the local data of the dat loop (<<>> while unbound)
    i,              \* position of the running dat or geojson loop
    output_data,    \* self.output_data
    exc             \* the exception that left transform, "none" if none

vars == <<decoded, pc, consumed, items, JTWC, geojsons_out, key1, tau, data,
          i, output_data, exc>>

Init ==
    /\ decoded \in Bulletins
    /\ pc = "for"
    /\ consumed = 0
    /\ items = <<>>
    /\ JTWC = <<>>
    /\ geojsons_out = <<>>
    /\ key1 = <<>>
    /\ tau = <<>>
    /\ data = <<>>
    /\ i = 1
    /\ output_data = <<>>
    /\ exc = "none"

\* line 56 with lines 61-87: the next collection, with fresh dicts
BeginCollection ==
    /\ pc = "for"
    /\ pc' = "items"
    /\ items' = <<>>
    /\ JTWC' = <<>>
    /\ geojsons_out' = <<>>
    /\ UNCHANGED <<decoded, consumed, key1, tau, data, i, output_data, exc>>

\* lines 233-234: results is exhausted
Return ==
    /\ pc = "for"
    /\ pc' = "done"
    /\ UNCHANGED <<decoded, consumed, items, JTWC, geojsons_out, key1, tau, data,
                   i, output_data, exc>>

\* lines 88-174: one feature of the collection
NextItem ==
    /\ pc = "items"
    /\ consumed < MaxItems
    /\ \E f \in decoded :
        \E p \in {ProcessItem(JTWC, geojsons_out, f)} :
        /\ items' = Append(items, f)
        /\ JTWC' = p.J
        /\ geojsons_out' = p.G
        /\ key1' = IF p.r.exc = "none" THEN p.r.key1 ELSE key1
        /\ tau' = IF p.r.exc = "none" THEN <<p.r.tau>> ELSE tau
        /\ exc' = p.exc
        /\ pc' = IF p.exc = "none" THEN "items" ELSE "raised"
    /\ consumed' = consumed + 1
    /\ UNCHANGED <<decoded, data, i, output_data>>

\* line 176: the collection has no more items
EndItems ==
    /\ pc = "items"
    /\ pc' = "dat"
    /\ i' = 1
    /\ UNCHANGED <<decoded, consumed, items, JTWC, geojsons_out, key1, tau, data,
                   output_data, exc>>

\* lines 179-218: one iteration of the dat loop; a record without tau, lat or
\* lon raises KeyError at lines 186-188
WriteDat ==
    /\ pc = "dat"
    /\ i <= Len(JTWC)
    /\ key1' = JTWC[i][1]
    /\ data' = <<JTWC[i][2]>>
    /\ LET d == JTWC[i][2] IN
        IF d.tau = <<>> \/ d.lat = <<>> \/ d.lon = <<>>
        THEN /\ pc' = "raised"
             /\ exc' = "KeyError"
             /\ UNCHANGED <<i, output_data>>
        ELSE /\ output_data' = Put(output_data, JTWC[i][1],
                                   [dat |-> OutputString(d), meta |-> Meta(d)])
             /\ i' = i + 1
             /\ UNCHANGED <<pc, exc>>
    /\ UNCHANGED <<decoded, consumed, items, JTWC, geojsons_out, tau>>

\* line 221: the dat loop is over
EndDat ==
    /\ pc = "dat"
    /\ i > Len(JTWC)
    /\ pc' = "geo"
    /\ i' = 1
    /\ UNCHANGED <<decoded, consumed, items, JTWC, geojsons_out, key1, tau, data,
                   output_data, exc>>

\* lines 221-231: one iteration of the outer geojson loop
WriteGeojson ==
    /\ pc = "geo"
    /\ i <= Len(geojsons_out)
    /\ key1' = geojsons_out[i][1]
    /\ IF geojsons_out[i][2] # <<>> /\ data = <<>>
       THEN /\ pc' = "raised"
            /\ exc' = "UnboundLocalError"
            /\ UNCHANGED <<i, output_data>>
       ELSE /\ output_data' = IF geojsons_out[i][2] = <<>> THEN output_data
                              ELSE PutGeojsons(output_data, geojsons_out[i][1],
                                               geojsons_out[i][2], data[1])
            /\ i' = i + 1
            /\ UNCHANGED <<pc, exc>>
    /\ UNCHANGED <<decoded, consumed, items, JTWC, geojsons_out, tau, data>>

\* the geojson loop is over: back to line 56
EndGeojson ==
    /\ pc = "geo"
    /\ i > Len(geojsons_out)
    /\ pc' = "for"
    /\ UNCHANGED <<decoded, consumed, items, JTWC, geojsons_out, key1, tau, data,
                   i, output_data, exc>>

Next ==
    \/ BeginCollection
    \/ Return
    \/ NextItem
    \/ EndItems
    \/ WriteDat
    \/ EndDat
    \/ WriteGeojson
    \/ EndGeojson

Spec == Init /\ [][Next]_vars

-----------------------------------------------------------------------------
(* Vocabulary of the properties *)

Last(q) == q[Len(q)]

IsPressure(f) == f.name = "pressure_reduced_to_mean_sea_level"
IsMaxWind(f) == f.name = "wind_speed_at10m"
IsRadius(f) == f.name = "effective_radius_with_respect_to_wind_speeds_above_threshold"

Quadrant == {"RAD1", "RAD2", "RAD3", "RAD4"}

\* the quadrant of a bearing range, as the table of the specification gives it
QuadrantOfRange(b) ==
    CASE b[1] = 0 -> "RAD1" [] b[1] = 90 -> "RAD2" [] b[1] = 180 -> "RAD3"
      [] b[1] = 270 -> "RAD4"

\* reference and valid instant of a feature, in either time encoding
RefOf(f) == f.phenomenonTime[1].s
ValidOf(f) == IF Len(f.phenomenonTime) = 2 THEN f.phenomenonTime[2].s ELSE f.resultTime.s

\* the RecordKey of a feature: identifier, ensemble member number if present
\* and else subset, reference time, lead time
RecordKey(f) ==
    Key1(Join(f.wigos, <<"-">>), IF f.ens = <<>> THEN f.subset ELSE Last(f.ens),
         RefOf(f), Tau(RefOf(f), ValidOf(f)))

\* the record of key k, the template when there is none yet
RecordOf(J, k) == IF Has(J, k) THEN Get(J, k) ELSE datarow
\* the row of threshold t, the blank row when there is none yet
RowOf(RAD, t) == IF Has(RAD, t) THEN Get(RAD, t) ELSE rads

\* the radius features consumed so far for key k
RadiiOf(k) == {n \in 1..Len(items) : IsRadius(items[n]) /\ RecordKey(items[n]) = k}

\* the last step consumed a feature without an exception
Consumed == pc = "items" /\ items # <<>>

-----------------------------------------------------------------------------
(* C1 *)

\* C1: when the features of a collection have all been aggregated, every key
\* that received a feature has exactly one record; the thresholds of the record
\* are exactly the knot-converted thresholds of the key's radius features, each
\* once; and a quadrant of a threshold row is populated if and only if a radius
\* feature of that threshold and quadrant was consumed for the key.
C1_OneRecordWithSeenQuadrants ==
    pc = "dat" =>
        \A k \in {RecordKey(items[n]) : n \in 1..Len(items)} :
            /\ Cardinality({j \in 1..Len(JTWC) : JTWC[j][1] = k}) = 1
            /\ LET RAD == Get(JTWC, k).RAD IN
                /\ Keys(RAD) = {Knots(Last(items[n].threshold)) : n \in RadiiOf(k)}
                /\ Cardinality(Keys(RAD)) = Len(RAD)
                /\ \A j \in 1..Len(RAD) : \A q \in Quadrant :
                    RAD[j][2][q] # <<>> <=>
                        \E n \in RadiiOf(k) :
                            /\ Knots(Last(items[n].threshold)) = RAD[j][1]
                            /\ QuadrantOfRange(Last(items[n].bearing)) = q

\* a collection of three radius features of one key: two thresholds, and two
\* quadrants in one of the rows
C1_Witness ==
    /\ pc = "dat"
    /\ Len(items) = 3
    /\ Len(JTWC) = 1
    /\ Len(JTWC[1][2].RAD) = 2
    /\ \E j \in 1..2 :
        Cardinality({q \in Quadrant : JTWC[1][2].RAD[j][2][q] # <<>>}) = 2

-----------------------------------------------------------------------------
(* C6 *)

\* C6: consuming one radius feature sets the quadrant of its bearing range
\* ([0,90) RAD1, [90,180) RAD2, [180,270) RAD3, [270,0) RAD4) in the row of its
\* threshold to its converted value, and leaves alone the other three quadrants
\* of the row, every other threshold row, the scalar fields of the record and
\* every other record.
C6_OneQuadrantPerRadius ==
    [][(pc = "items" /\ pc' = "items" /\ items' # items /\ IsRadius(Last(items')))
        => LET f == Last(items')
               k == RecordKey(f)
               t == Knots(Last(f.threshold))
               q == QuadrantOfRange(Last(f.bearing))
               old == RecordOf(JTWC, k)
               new == Get(JTWC', k)
           IN  /\ Has(JTWC', k)
               /\ Has(new.RAD, t)
               /\ Get(new.RAD, t)[q] = <<NauticalMiles(f.value)>>
               /\ \A c \in Quadrant \ {q} : Get(new.RAD, t)[c] = RowOf(old.RAD, t)[c]
               /\ Get(new.RAD, t).RAD = RowOf(old.RAD, t).RAD
               /\ Get(new.RAD, t).wind_code = RowOf(old.RAD, t).wind_code
               /\ \A j \in 1..Len(old.RAD) : old.RAD[j][1] # t => new.RAD[j] = old.RAD[j]
               /\ Keys(new.RAD) = Keys(old.RAD) \cup {t}
               /\ [new EXCEPT !.RAD = old.RAD] = old
               /\ \A j \in 1..Len(JTWC) : JTWC[j][1] # k => JTWC'[j] = JTWC[j]
      ]_vars

\* a [270,0) feature has just been consumed: its row has RAD4 and no RAD1
C6_Witness ==
    /\ Consumed
    /\ IsRadius(Last(items))
    /\ Last(Last(items).bearing) = <<270, 0>>
    /\ LET row == Get(Get(JTWC, key1).RAD, Knots(Last(Last(items).threshold)))
       IN  row.RAD4 # <<>> /\ row.RAD1 = <<>>

-----------------------------------------------------------------------------
(* C9 *)

\* C9 as claimed: within a collection no threshold is removed and a populated
\* quadrant keeps the value it was first given.
C9_SetAtMostOnce ==
    [][(pc = "items" /\ pc' \in {"items", "raised"})
        => \A j \in 1..Len(JTWC) :
            /\ Len(JTWC') >= j
            /\ JTWC'[j][1] = JTWC[j][1]
            /\ \A m \in 1..Len(JTWC[j][2].RAD) :
                /\ Len(JTWC'[j][2].RAD) >= m
                /\ JTWC'[j][2].RAD[m][1] = JTWC[j][2].RAD[m][1]
                /\ \A q \in Quadrant :
                    JTWC[j][2].RAD[m][2][q] # <<>>
                        => JTWC'[j][2].RAD[m][2][q] = JTWC[j][2].RAD[m][2][q]
      ]_vars

\* C9 as amended: within a collection no threshold is removed (it keeps its
\* place in its record), and a populated quadrant holds the converted value of
\* the latest radius feature consumed for its key, threshold and quadrant: a
\* repeat replaces the value of the earlier feature.
C9_LastRadiusWins ==
    /\ [][(pc = "items" /\ pc' \in {"items", "raised"})
            => \A j \in 1..Len(JTWC) :
                /\ Len(JTWC') >= j
                /\ JTWC'[j][1] = JTWC[j][1]
                /\ \A m \in 1..Len(JTWC[j][2].RAD) :
                    /\ Len(JTWC'[j][2].RAD) >= m
                    /\ JTWC'[j][2].RAD[m][1] = JTWC[j][2].RAD[m][1]
         ]_vars
    /\ [](pc = "items" =>
            \A j \in 1..Len(JTWC) : \A m \in 1..Len(JTWC[j][2].RAD) : \A q \in Quadrant :
                LET seen == {n \in RadiiOf(JTWC[j][1]) :
                                /\ Knots(Last(items[n].threshold)) = JTWC[j][2].RAD[m][1]
                                /\ QuadrantOfRange(Last(items[n].bearing)) = q}
                IN  JTWC[j][2].RAD[m][2][q] # <<>> =>
                        \E n \in seen :
                            /\ \A n2 \in seen : n2 <= n
                            /\ JTWC[j][2].RAD[m][2][q] = <<NauticalMiles(items[n].value)>>)

\* the same key, threshold and quadrant twice with different radii: the record
\* holds the second
C9_Witness ==
    /\ Consumed
    /\ \E n \in 1..Len(items) - 1 :
        LET f == items[n]
            g == Last(items)
        IN  /\ IsRadius(f) /\ IsRadius(g)
            /\ RecordKey(f) = RecordKey(g)
            /\ Knots(Last(f.threshold)) = Knots(Last(g.threshold))
            /\ Last(f.bearing) = Last(g.bearing)
            /\ NauticalMiles(f.value) # NauticalMiles(g.value)
            /\ Get(Get(JTWC, key1).RAD, Knots(Last(g.threshold)))[QuadrantOfRange(Last(g.bearing))]
                = <<NauticalMiles(g.value)>>

-----------------------------------------------------------------------------
(* C2 *)

\* C2: the key of a consumed feature carries its ensemble member number when it
\* has one and its subset otherwise; two features of equal identifier and
\* times and different ensemble member numbers have different keys and
\* different records, whatever their subsets; and a record holds a pressure, a
\* maximum wind or a threshold row only if a feature of that kind was consumed
\* for its own key.
C2_EnsembleMembersApart ==
    Consumed =>
        /\ key1 = RecordKey(Last(items))
        /\ \A m, n \in 1..Len(items) :
            LET f == items[m]
                g == items[n]
            IN  (/\ f.wigos = g.wigos
                 /\ RefOf(f) = RefOf(g) /\ ValidOf(f) = ValidOf(g)
                 /\ f.ens # <<>> /\ g.ens # <<>> /\ Last(f.ens) # Last(g.ens))
                => /\ RecordKey(f) # RecordKey(g)
                   /\ Has(JTWC, RecordKey(f)) /\ Has(JTWC, RecordKey(g))
                   /\ Idx(JTWC, RecordKey(f)) # Idx(JTWC, RecordKey(g))
        /\ \A j \in 1..Len(JTWC) :
            LET of(kind(_)) == {n \in 1..Len(items) :
                                   kind(items[n]) /\ RecordKey(items[n]) = JTWC[j][1]}
            IN  /\ JTWC[j][2].MSLP # <<>> => of(IsPressure) # {}
                /\ JTWC[j][2].Vmax # <<>> => of(IsMaxWind) # {}
                /\ JTWC[j][2].RAD # <<>> => of(IsRadius) # {}

\* a pressure of member 1 and a maximum wind of member 2, equal subsets: the
\* record of member 2 has the wind and no pressure
C2_Witness ==
    /\ Consumed
    /\ \E m, n \in 1..Len(items) :
        /\ IsPressure(items[m]) /\ items[m].ens = <<1>>
        /\ IsMaxWind(items[n]) /\ items[n].ens = <<2>>
        /\ items[m].subset = items[n].subset
        /\ Has(JTWC, RecordKey(items[n]))
        /\ Get(JTWC, RecordKey(items[n])).MSLP = <<>>
        /\ Get(JTWC, RecordKey(items[n])).Vmax # <<>>
        /\ Get(JTWC, RecordKey(items[m])).MSLP # <<>>

-----------------------------------------------------------------------------
(* C8 *)

\* round(d / 3600), halves to the even hour
RoundHours(d) ==
    LET fl == IF d >= 0 THEN d \div 3600 ELSE -((-d + 3599) \div 3600)
        rest == d - 3600 * fl
    IN  IF rest < 1800 THEN fl
        ELSE IF rest > 1800 THEN fl + 1
        ELSE IF fl % 2 = 0 THEN fl ELSE fl + 1

\* the whole hours in d seconds, counted toward zero
WholeHours(d) ==
    CHOOSE n \in -24..24 :
        /\ d >= 0 => 3600 * n <= d /\ d < 3600 * (n + 1)
        /\ d < 0 => 3600 * (n - 1) < d /\ d <= 3600 * n

\* the lead time the transform used for the feature it consumed last is n: as
\* its local, in the key and, for a pressure feature, in the record
LeadTimeIs(n) ==
    LET f == Last(items) IN
    /\ tau = <<n>>
    /\ key1 = Key1(Join(f.wigos, <<"-">>), IF f.ens = <<>> THEN f.subset ELSE Last(f.ens),
                   RefOf(f), n)
    /\ IsPressure(f) => Get(JTWC, key1).tau = <<n>>

\* C8 as claimed: the lead time is valid - reference in hours, rounded to the
\* nearest hour.
C8_LeadTimeRounded == Consumed => LeadTimeIs(RoundHours(ValidOf(Last(items)) - RefOf(Last(items))))

\* C8 as amended: in both time encodings the lead time is valid - reference in
\* seconds divided by 3600 and truncated toward zero (5400 s gives 1, 2700 s
\* gives 0, -5400 s gives -1).
C8_LeadTimeTruncated == Consumed => LeadTimeIs(WholeHours(ValidOf(Last(items)) - RefOf(Last(items))))

\* a pressure feature with a separate resultTime 5400 s after the reference
\* time was consumed with lead time 1
C8_Witness ==
    /\ Consumed
    /\ IsPressure(Last(items))
    /\ Len(Last(items).phenomenonTime) = 1
    /\ ValidOf(Last(items)) - RefOf(Last(items)) = 5400
    /\ tau = <<1>>
    /\ Get(JTWC, key1).tau = <<1>>

-----------------------------------------------------------------------------
(* C4 *)

\* the per-feature errors: an identifier that does not split in two, a
\* phenomenonTime of more than two parts or a timestamp off the format, a
\* pressure feature whose storm number has no third character, a radius
\* feature without bearing or threshold or with a bearing range off the table
Malformed(f) ==
    \/ Len(f.wigos) # 2
    \/ Len(f.phenomenonTime) > 2
    \/ ~f.phenomenonTime[1].ok
    \/ Len(f.phenomenonTime) = 2 /\ ~f.phenomenonTime[2].ok
    \/ Len(f.phenomenonTime) = 1 /\ ~f.resultTime.ok
    \/ IsPressure(f) /\ Len(f.wigos[2]) < 3
    \/ IsRadius(f) /\ (f.bearing = <<>> \/ f.threshold = <<>>)
    \/ IsRadius(f) /\ f.bearing # <<>> /\ Last(f.bearing) \notin TableBearings

-----------------------------------------------------------------------------
(* C3, C5, C7, C10: what the claims ask of the outputs *)

\* C3: every record of an exhausted collection is finalized, an incomplete one
\* too: the iteration of the dat loop on it does not fail and puts the text of
\* its key in output_data.
C3_IncompleteStillEmitted ==
    [][(pc = "dat" /\ i <= Len(JTWC))
        => pc' = "dat" /\ Has(output_data', JTWC[i][1])]_vars

\* C5: when the dat loop of a collection is over, every line of the text of a
\* record has the latitude code of the record, right-justified to 4, as 7th
\* field and its longitude code, right-justified to 5, as 8th field.
C5_HemisphereCodesInLine ==
    pc = "geo" =>
        \A j \in 1..Len(JTWC) :
            LET lines == Get(output_data, JTWC[j][1]).dat IN
            \A n \in 1..Len(lines) :
                /\ lines[n][7] = RJust(JTWC[j][2].clat, 4)
                /\ lines[n][8] = RJust(JTWC[j][2].clon, 5)

\* C7: a radius feature of value 0 or less sets the quadrant of its threshold
\* row to its converted value, and the feature derived from it has no polygon
\* geometry.
C7_NoPolygonForZeroRadius ==
    (Consumed /\ IsRadius(Last(items)) /\ Last(items).value <= 0) =>
        LET f == Last(items)
            t == Knots(Last(f.threshold))
            q == QuadrantOfRange(Last(f.bearing))
        IN  /\ Get(Get(JTWC, key1).RAD, t)[q] = <<NauticalMiles(f.value)>>
            /\ Get(Get(geojsons_out, key1), IntStr(t) \o <<"-">> \o ColChars(q)).type
                # "Polygon"

\* C10: when the geojson loop of a collection is over, the artifact of every
\* derived feature has, as data_date and in its relative path, the reference
\* time yyyymmddhh of the record of its own key.
C10_DateOfOwnRecord ==
    (pc = "for" /\ exc = "none") =>
        \A j \in 1..Len(geojsons_out) : \A n \in 1..Len(geojsons_out[j][2]) :
            LET k == geojsons_out[j][1]
                art == Get(output_data, k \o <<"-">> \o geojsons_out[j][2][n][1])
            IN  /\ art.meta.data_date = Get(JTWC, k).yyyymmddhh
                /\ art.meta.relative_filepath = get_local_filepath(Get(JTWC, k).yyyymmddhh)

====
